---------------------------- MODULE Spec2Model ----------------------------
(***************************************************************************)
(* TJUH -- Tiny Joystick USB Host.                                         *)
(*                                                                         *)
(* A model of the report classifier/decoder (src/src/tjuh_parse.c) and of  *)
(* the host glue that drives it from the transport's callbacks             *)
(* (src/src/tjuh.c).                                                       *)
(*                                                                         *)
(* Two specifications share the variables:                                 *)
(*   ParseSpec  the registry operations followed by one call of            *)
(*              tjuh_parse_report on inputs drawn from bounded sets;       *)
(*   Spec       the host: attach, device descriptor, detach and read       *)
(*              completion callbacks, serialised as the transport's poll   *)
(*              function serialises them.                                  *)
(***************************************************************************)
EXTENDS Integers, Sequences, FiniteSets, TLC

(***************************************************************************)
(* Program constants.                                                      *)
(***************************************************************************)
TJUH_MAX_DEVICES == 2
BUF_POOL_SIZE == 4
BUF_SIZE == 64

VID_SONY == 1356
PID_DS4_V1 == 1476
PID_DS4_V2 == 2508
PID_DUALSENSE == 3302
PID_DUALSENSE_EDGE == 3570
VID_NINTENDO == 1406
PID_SWITCH_PRO == 8201
PID_JOYCON_L == 8198
PID_JOYCON_R == 8199

TJUH_HINT_NONE == 0
TJUH_HINT_XBOX_ONE == 1
TJUH_HINT_SWITCH_PRO == 2

Hints == {TJUH_HINT_NONE, TJUH_HINT_XBOX_ONE, TJUH_HINT_SWITCH_PRO}

(***************************************************************************)
(* Bounds of the model.                                                    *)
(***************************************************************************)
\* Report lengths 7..MaxLen are enumerated, with 0, 3 and 20 (the lengths
\* the dispatch names).
MaxLen == 12
\* Registry operations before the parser is called.
MaxRegOps == 1

\* how many attach events a run has
MaxMounts == 2

(***************************************************************************)
(* Bytes and bits.                                                         *)
(***************************************************************************)
Byte == 0..255

\* (v >> k) & 1
Bit(v, k) == (v \div (2 ^ k)) % 2

\* (v & mask) != 0 for a one-bit mask 1 << k
Test(v, k) == Bit(v, k) = 1

SetBit(v, k, on) == v - Bit(v, k) * (2 ^ k) + (IF on THEN 2 ^ k ELSE 0)

Min(a, b) == IF b > a THEN a ELSE b

(***************************************************************************)
(* tjuh_gamepad_report_t: 8 packed bytes.  Bit-fields are allocated from   *)
(* the least significant bit (GCC, little-endian target), so dpad is the   *)
(* low nibble of dpad_buttons_byte.                                        *)
(***************************************************************************)
s_zero_report ==
    [x |-> 0, y |-> 0, z |-> 0, rz |-> 0,
     dpad_buttons_byte |-> 0, trigger_buttons_byte |-> 0,
     extra_buttons_byte |-> 0, reserved_byte |-> 0]

FieldByte(f) ==
    CASE f \in {"square", "cross", "circle", "triangle"} -> "dpad_buttons_byte"
      [] f \in {"l1", "r1", "l2", "r2", "select", "start", "l3", "r3"}
             -> "trigger_buttons_byte"
      [] f \in {"system", "extra"} -> "extra_buttons_byte"

FieldBit(f) ==
    CASE f = "square" -> 4 [] f = "cross" -> 5
      [] f = "circle" -> 6 [] f = "triangle" -> 7
      [] f = "l1" -> 0 [] f = "r1" -> 1 [] f = "l2" -> 2 [] f = "r2" -> 3
      [] f = "select" -> 4 [] f = "start" -> 5
      [] f = "l3" -> 6 [] f = "r3" -> 7
      [] f = "system" -> 0 [] f = "extra" -> 1

\* rpt->f = on, for a one-bit field f
SetFlag(rpt, f, on) == [rpt EXCEPT ![FieldByte(f)] = SetBit(@, FieldBit(f), on)]

GetFlag(rpt, f) == Test(rpt[FieldByte(f)], FieldBit(f))

RECURSIVE SetFlags(_, _)
\* a run of one-bit assignments, in order
SetFlags(rpt, as) ==
    IF as = << >> THEN rpt
    ELSE SetFlags(SetFlag(rpt, Head(as)[1], Head(as)[2]), Tail(as))

\* rpt->dpad = v, a 4-bit field
SetDpad(rpt, v) ==
    [rpt EXCEPT !.dpad_buttons_byte = (@ \div 16) * 16 + (v % 16)]

GetDpad(rpt) == rpt.dpad_buttons_byte % 16

\* the 8 bytes of a report, in memory order
ReportBytes(rpt) ==
    << rpt.x, rpt.y, rpt.z, rpt.rz, rpt.dpad_buttons_byte,
       rpt.trigger_buttons_byte, rpt.extra_buttons_byte, rpt.reserved_byte >>


(***************************************************************************)
(* Device registry (tjuh_parse.c).  An entry is {dev_addr, vid, pid};      *)
(* s_devices[dev_addr - 1] is the entry of dev_addr.                       *)
(***************************************************************************)
ZeroEntry == [dev_addr |-> 0, vid |-> 0, pid |-> 0]

InRange(dev_addr) == ~(dev_addr = 0 \/ dev_addr > TJUH_MAX_DEVICES)

\* returns the success flag and the registry after the call
tjuh_parse_init_device(reg, dev_addr, vid, pid) ==
    IF ~InRange(dev_addr) THEN [ok |-> FALSE, reg |-> reg]
    ELSE [ok |-> TRUE,
          reg |-> [reg EXCEPT ![dev_addr] =
                      [dev_addr |-> dev_addr, vid |-> vid, pid |-> pid]]]

\* a free that reports success and clears nothing
tjuh_parse_free_device_Keep(reg, dev_addr) ==
    [ok |-> InRange(dev_addr), reg |-> reg]

tjuh_parse_free_device(reg, dev_addr) ==
    IF ~InRange(dev_addr) THEN [ok |-> FALSE, reg |-> reg]
    ELSE [ok |-> TRUE, reg |-> [reg EXCEPT ![dev_addr] = ZeroEntry]]

\* the lookup without its test of the vid sentinel
tjuh_parse_get_vid_pid_NoSentinel(reg, dev_addr) ==
    IF ~InRange(dev_addr) THEN [ok |-> FALSE, vid |-> 0, pid |-> 0]
    ELSE [ok |-> TRUE, vid |-> reg[dev_addr].vid, pid |-> reg[dev_addr].pid]

tjuh_parse_get_vid_pid(reg, dev_addr) ==
    IF ~InRange(dev_addr) THEN [ok |-> FALSE, vid |-> 0, pid |-> 0]
    ELSE IF reg[dev_addr].vid = 0 THEN [ok |-> FALSE, vid |-> 0, pid |-> 0]
    ELSE [ok |-> TRUE, vid |-> reg[dev_addr].vid, pid |-> reg[dev_addr].pid]

get_vid_pid(reg, dev_addr) ==
    IF ~InRange(dev_addr) THEN [ok |-> FALSE, vid |-> 0, pid |-> 0]
    ELSE [ok |-> reg[dev_addr].vid # 0,
          vid |-> reg[dev_addr].vid, pid |-> reg[dev_addr].pid]

(***************************************************************************)
(* Axis conversion helpers.  val is the sign-extended int16.               *)
(***************************************************************************)
\* memcpy of two bytes into an int16_t on a little-endian target
ToInt16(lo, hi) ==
    LET u == lo + 256 * hi IN IF u >= 32768 THEN u - 65536 ELSE u

\* the high byte taken without the 0x8000 offset
int16_to_uint8_NoOffset(val) == (val \div 256) % 256

int16_to_uint8(val) == ((val + 32768) \div 256) % 256

int16_to_uint8_inv(val) == (255 - ((val + 32768) \div 256)) % 256

(***************************************************************************)
(* The per-family decoders.  Each returns the report it leaves in *rpt and *)
(* the set of indices of data it reads.                                    *)
(***************************************************************************)
\* the hat table with the hat bits read as a bit set: up and down together
\* taken as up
Xbox360Dpad_UpWins(dpad_bits) ==
    CASE dpad_bits = 0 -> 8
      [] dpad_bits \in {1, 3} -> 0
      [] dpad_bits = 9 -> 1
      [] dpad_bits = 8 -> 2
      [] dpad_bits = 10 -> 3
      [] dpad_bits = 2 -> 4
      [] dpad_bits = 6 -> 5
      [] dpad_bits = 4 -> 6
      [] dpad_bits = 5 -> 7
      [] OTHER -> 8

Xbox360Dpad(dpad_bits) ==
    CASE dpad_bits = 0 -> 8
      [] dpad_bits = 1 -> 0
      [] dpad_bits = 9 -> 1
      [] dpad_bits = 8 -> 2
      [] dpad_bits = 10 -> 3
      [] dpad_bits = 2 -> 4
      [] dpad_bits = 6 -> 5
      [] dpad_bits = 4 -> 6
      [] dpad_bits = 5 -> 7
      [] OTHER -> 8

parse_xbox360_dpad_buttons(byte, rpt) ==
    SetFlags(SetDpad(rpt, Xbox360Dpad(byte % 16)),
             << <<"start", Test(byte, 4)>>, <<"select", Test(byte, 5)>>,
                <<"l3", Test(byte, 6)>>, <<"r3", Test(byte, 7)>> >>)

parse_xbox360_buttons(byte, rpt) ==
    SetFlags(rpt,
             << <<"l1", Test(byte, 0)>>, <<"r1", Test(byte, 1)>>,
                <<"system", Test(byte, 2)>>, <<"cross", Test(byte, 4)>>,
                <<"circle", Test(byte, 5)>>, <<"square", Test(byte, 6)>>,
                <<"triangle", Test(byte, 7)>> >>)

parse_xbox360(data, len, rpt) ==
    LET r1 == parse_xbox360_dpad_buttons(data[2], rpt)
        r2 == parse_xbox360_buttons(data[3], r1)
        r3 == SetFlags(r2, << <<"l2", data[4] > 128>>, <<"r2", data[5] > 128>> >>)
        x_val == ToInt16(data[6], data[7])
        y_val == ToInt16(data[8], data[9])
        z_val == ToInt16(data[10], data[11])
        rz_val == ToInt16(data[12], data[13])
    IN [rpt |-> [r3 EXCEPT !.x = int16_to_uint8(x_val),
                           !.y = int16_to_uint8_inv(y_val),
                           !.z = int16_to_uint8(z_val),
                           !.rz = int16_to_uint8_inv(rz_val)],
        reads |-> 2..13]

\* parse_sony_dualsense skipping 6 bytes after the axes instead of 7
parse_sony_dualsense_Skip6(data, len, rpt) ==
    [rpt |-> [rpt EXCEPT !.x = data[1], !.y = data[2],
                         !.z = data[3], !.rz = data[4],
                         !.dpad_buttons_byte = data[7],
                         !.trigger_buttons_byte = data[8],
                         !.extra_buttons_byte = data[9]],
     reads |-> (1..4) \cup {7, 8, 9}]

\* data++; memcpy of the 4 axes; data += 7; three single bytes
parse_sony_dualsense(data, len, rpt) ==
    [rpt |-> [rpt EXCEPT !.x = data[1], !.y = data[2],
                         !.z = data[3], !.rz = data[4],
                         !.dpad_buttons_byte = data[8],
                         !.trigger_buttons_byte = data[9],
                         !.extra_buttons_byte = data[10]],
     reads |-> (1..4) \cup {8, 9, 10}]

\* parse_sony_ds4 copying from the report-ID byte on
parse_sony_ds4_NoSkip(data, len, rpt) ==
    [rpt |-> [x |-> data[0], y |-> data[1], z |-> data[2], rz |-> data[3],
              dpad_buttons_byte |-> data[4],
              trigger_buttons_byte |-> data[5],
              extra_buttons_byte |-> data[6],
              reserved_byte |-> data[7]],
     reads |-> 0..7]

\* data++; memcpy(rpt, data, sizeof(*rpt)), 8 bytes
parse_sony_ds4(data, len, rpt) ==
    [rpt |-> [x |-> data[1], y |-> data[2], z |-> data[3], rz |-> data[4],
              dpad_buttons_byte |-> data[5],
              trigger_buttons_byte |-> data[6],
              extra_buttons_byte |-> data[7],
              reserved_byte |-> data[8]],
     reads |-> 1..8]

SwitchFullDpad(btn_l) ==
    LET up == Test(btn_l, 1)
        down == Test(btn_l, 0)
        left == Test(btn_l, 3)
        right == Test(btn_l, 2)
    IN CASE up /\ right -> 1
         [] down /\ right -> 3
         [] down /\ left -> 5
         [] up /\ left -> 7
         [] up -> 0
         [] right -> 2
         [] down -> 4
         [] left -> 6
         [] OTHER -> 8

parse_switch_pro_full(data, len, rpt) ==
    IF len < 12 THEN [rpt |-> rpt, reads |-> {}]
    ELSE
    LET btn_r == data[3]
        btn_m == data[4]
        btn_l == data[5]
        r1 == SetFlags(rpt,
                << <<"cross", Test(btn_r, 2)>>, <<"circle", Test(btn_r, 3)>>,
                   <<"square", Test(btn_r, 0)>>, <<"triangle", Test(btn_r, 1)>>,
                   <<"r1", Test(btn_r, 6)>>, <<"r2", Test(btn_r, 7)>>,
                   <<"l1", Test(btn_l, 6)>>, <<"l2", Test(btn_l, 7)>>,
                   <<"select", Test(btn_m, 0)>>, <<"start", Test(btn_m, 1)>>,
                   <<"r3", Test(btn_m, 2)>>, <<"l3", Test(btn_m, 3)>>,
                   <<"system", Test(btn_m, 4)>>, <<"extra", Test(btn_m, 5)>> >>)
        r2 == SetDpad(r1, SwitchFullDpad(btn_l))
        lx == (data[6] + (data[7] % 16) * 256) % 65536
        ly == ((data[7] \div 16) + data[8] * 16) % 65536
        rx == (data[9] + (data[10] % 16) * 256) % 65536
        ry == ((data[10] \div 16) + data[11] * 16) % 65536
    IN [rpt |-> [r2 EXCEPT !.x = (lx \div 16) % 256,
                           !.y = (255 - (ly \div 16)) % 256,
                           !.z = (rx \div 16) % 256,
                           !.rz = (255 - (ry \div 16)) % 256],
        reads |-> 3..11]

parse_switch_pro_simple(data, len, rpt) ==
    IF len < 8 THEN [rpt |-> rpt, reads |-> {}]
    ELSE
    LET btn1 == data[1]
        btn2 == data[2]
        r1 == SetFlags(rpt,
                << <<"square", Test(btn1, 0)>>, <<"cross", Test(btn1, 1)>>,
                   <<"circle", Test(btn1, 2)>>, <<"triangle", Test(btn1, 3)>>,
                   <<"l1", Test(btn1, 4)>>, <<"r1", Test(btn1, 5)>>,
                   <<"l2", Test(btn1, 6)>>, <<"r2", Test(btn1, 7)>>,
                   <<"select", Test(btn2, 0)>>, <<"start", Test(btn2, 1)>>,
                   <<"l3", Test(btn2, 2)>>, <<"r3", Test(btn2, 3)>>,
                   <<"system", Test(btn2, 4)>>, <<"extra", Test(btn2, 5)>> >>)
        r2 == SetDpad(r1, IF data[3] > 8 THEN 8 ELSE data[3])
    IN [rpt |-> [r2 EXCEPT !.x = data[4], !.y = data[5],
                           !.z = data[6], !.rz = data[7]],
        reads |-> 1..7]

parse_switch(data, len, rpt) ==
    IF len < 8 THEN [ok |-> FALSE, rpt |-> rpt, reads |-> {}]
    ELSE CASE data[0] = 48 ->
                LET d == parse_switch_pro_full(data, len, rpt)
                IN [ok |-> TRUE, rpt |-> d.rpt, reads |-> {0} \cup d.reads]
           [] data[0] = 63 ->
                LET d == parse_switch_pro_simple(data, len, rpt)
                IN [ok |-> TRUE, rpt |-> d.rpt, reads |-> {0} \cup d.reads]
           [] OTHER -> [ok |-> FALSE, rpt |-> rpt, reads |-> {0}]

parse_generic_8byte(data, len, rpt) ==
    LET r0 == [rpt EXCEPT !.rz = data[0], !.z = data[1],
                          !.x = data[2], !.y = data[3]]
        bits5 == (data[5] \div 16) % 16
        r1 == SetFlags(r0,
                << <<"triangle", Test(bits5, 0)>>, <<"circle", Test(bits5, 1)>>,
                   <<"cross", Test(bits5, 2)>>, <<"square", Test(bits5, 3)>> >>)
        r2 == SetDpad(r1, Min(data[5] % 16, 8))
        bits6h == (data[6] \div 16) % 16
        r3 == SetFlags(r2,
                << <<"l3", Test(bits6h, 0)>>, <<"r3", Test(bits6h, 1)>>,
                   <<"select", Test(bits6h, 2)>>, <<"start", Test(bits6h, 3)>> >>)
        bits6l == data[6] % 16
    IN [rpt |-> SetFlags(r3,
                << <<"l1", Test(bits6l, 0)>>, <<"r1", Test(bits6l, 1)>>,
                   <<"l2", Test(bits6l, 2)>>, <<"r2", Test(bits6l, 3)>> >>),
        reads |-> {0, 1, 2, 3, 5, 6}]

parse_generic_3byte(data, len, rpt) ==
    [rpt |-> [rpt EXCEPT !.x = data[0], !.y = data[1],
                         !.dpad_buttons_byte = ((data[2] * 16) % 256) + 8],
     reads |-> {0, 1, 2}]

(***************************************************************************)
(* Dispatch.  A dispatcher returns the success flag, the report left in    *)
(* *report_out and the indices of data read on the way.                    *)
(***************************************************************************)
parse_sony(pid, data, len, rpt) ==
    IF len < 10 THEN [ok |-> FALSE, rpt |-> rpt, reads |-> {}]
    ELSE IF data[0] # 1 THEN [ok |-> FALSE, rpt |-> rpt, reads |-> {0}]
    ELSE IF pid \in {PID_DUALSENSE, PID_DUALSENSE_EDGE}
         THEN LET d == parse_sony_dualsense(data, len, rpt)
              IN [ok |-> TRUE, rpt |-> d.rpt, reads |-> {0} \cup d.reads]
         ELSE LET d == parse_sony_ds4(data, len, rpt)
              IN [ok |-> TRUE, rpt |-> d.rpt, reads |-> {0} \cup d.reads]

\* the size-specific layouts: the switch on max_ep_size
SizeSpecific(data, actual_len, max_ep_size, rpt) ==
    CASE max_ep_size = 8 /\ actual_len = 8 ->
            LET d == parse_generic_8byte(data, actual_len, rpt)
            IN [ok |-> TRUE, rpt |-> d.rpt, reads |-> d.reads]
      [] max_ep_size = 8 /\ actual_len = 3 ->
            LET d == parse_generic_3byte(data, actual_len, rpt)
            IN [ok |-> TRUE, rpt |-> d.rpt, reads |-> d.reads]
      [] max_ep_size = 32 /\ actual_len = 20 ->
            LET d == parse_xbox360(data, actual_len, rpt)
            IN [ok |-> TRUE, rpt |-> d.rpt, reads |-> d.reads]
      [] OTHER -> [ok |-> FALSE, rpt |-> rpt, reads |-> {}]

\* axes[i] >= 96 && axes[i] <= 160
Centered(v) == v >= 96 /\ v <= 160

\* the catch-all accepting 8 bytes, the length of its outer test
CatchAll_AcceptsLen8(data, actual_len, max_ep_size, rpt) ==
    IF ~(actual_len >= 8 /\ max_ep_size >= 8)
    THEN [ok |-> FALSE, rpt |-> rpt, reads |-> {}]
    ELSE IF ~(data[0] >= 1 /\ data[0] <= 4)
    THEN [ok |-> FALSE, rpt |-> rpt, reads |-> {0}]
    ELSE IF \E i \in 1..4 : Centered(data[i])
    THEN [ok |-> TRUE, rpt |-> parse_sony_ds4(data, actual_len, rpt).rpt,
          reads |-> 0..8]
    ELSE [ok |-> FALSE, rpt |-> rpt, reads |-> 0..4]

\* the catch-all after the switch
CatchAll(data, actual_len, max_ep_size, rpt) ==
    IF ~(actual_len >= 8 /\ max_ep_size >= 8)
    THEN [ok |-> FALSE, rpt |-> rpt, reads |-> {}]
    ELSE IF ~(data[0] >= 1 /\ data[0] <= 4)
    THEN [ok |-> FALSE, rpt |-> rpt, reads |-> {0}]
    ELSE
    LET iters == {i \in 0..3 : i + 1 < actual_len}
        hits == {i \in iters : Centered(data[i + 1])}
        any_centered == hits # {}
        first == CHOOSE i \in hits : \A j \in hits : i <= j
        looked == IF any_centered THEN {i + 1 : i \in {j \in iters : j <= first}}
                  ELSE {i + 1 : i \in iters}
    IN IF any_centered /\ actual_len >= 9
       THEN LET d == parse_sony_ds4(data, actual_len, rpt)
            IN [ok |-> TRUE, rpt |-> d.rpt,
                reads |-> {0} \cup looked \cup d.reads]
       ELSE [ok |-> FALSE, rpt |-> rpt, reads |-> {0} \cup looked]

\* the catch-all tried before the switch on max_ep_size
parse_by_endpoint_size_CatchAllFirst(data, actual_len, max_ep_size, rpt) ==
    LET c == CatchAll(data, actual_len, max_ep_size, rpt)
    IN IF c.ok THEN c ELSE SizeSpecific(data, actual_len, max_ep_size, rpt)

parse_by_endpoint_size(data, actual_len, max_ep_size, rpt) ==
    LET s == SizeSpecific(data, actual_len, max_ep_size, rpt)
    IN IF s.ok THEN s ELSE CatchAll(data, actual_len, max_ep_size, rpt)

\* the hint stage without its XboxOne test
HintStage_NoXboxCheck(data, actual_len, report_out, hint) ==
    parse_switch(data, actual_len, report_out)

\* Stage 1: the hint
HintStage(data, actual_len, report_out, hint) ==
    IF hint = TJUH_HINT_XBOX_ONE
    THEN [ok |-> FALSE, rpt |-> report_out, reads |-> {}]
    ELSE parse_switch(data, actual_len, report_out)

\* the identity stage falling through to the endpoint-size heuristic when the
\* Sony decoder rejects
IdentityStage_SonyFallsThrough(reg, dev_addr, data, actual_len, max_ep_size, report_out) ==
    LET id == get_vid_pid(reg, dev_addr)
        sony == parse_sony(id.pid, data, actual_len, report_out)
    IN CASE id.ok /\ id.vid = VID_SONY /\ sony.ok -> sony
         [] id.ok /\ id.vid = VID_NINTENDO ->
               parse_switch(data, actual_len, report_out)
         [] OTHER ->
               parse_by_endpoint_size(data, actual_len, max_ep_size, report_out)

\* the identity stage without its Nintendo case
IdentityStage_NoNintendo(reg, dev_addr, data, actual_len, max_ep_size, report_out) ==
    LET id == get_vid_pid(reg, dev_addr)
    IN CASE id.ok /\ id.vid = VID_SONY ->
               parse_sony(id.pid, data, actual_len, report_out)
         [] OTHER ->
               parse_by_endpoint_size(data, actual_len, max_ep_size, report_out)

\* Stage 2 and Stage 3: the identity, then the endpoint size
IdentityStage(reg, dev_addr, data, actual_len, max_ep_size, report_out) ==
    LET id == get_vid_pid(reg, dev_addr)
    IN CASE id.ok /\ id.vid = VID_SONY ->
               parse_sony(id.pid, data, actual_len, report_out)
         [] id.ok /\ id.vid = VID_NINTENDO ->
               parse_switch(data, actual_len, report_out)
         [] OTHER ->
               parse_by_endpoint_size(data, actual_len, max_ep_size, report_out)

\* the dispatch with the identity looked up before the hint
tjuh_parse_report_IdentityFirst(reg, dev_addr, data, actual_len, max_ep_size, report_out, hint) ==
    IF actual_len = 0 THEN [ok |-> FALSE, rpt |-> report_out, reads |-> {}]
    ELSE IF get_vid_pid(reg, dev_addr).ok
            /\ get_vid_pid(reg, dev_addr).vid \in {VID_SONY, VID_NINTENDO}
    THEN IdentityStage(reg, dev_addr, data, actual_len, max_ep_size, report_out)
    ELSE IF hint \in {TJUH_HINT_XBOX_ONE, TJUH_HINT_SWITCH_PRO}
    THEN HintStage(data, actual_len, report_out, hint)
    ELSE IdentityStage(reg, dev_addr, data, actual_len, max_ep_size, report_out)

tjuh_parse_report(reg, dev_addr, data, actual_len, max_ep_size, report_out, hint) ==
    IF actual_len = 0 THEN [ok |-> FALSE, rpt |-> report_out, reads |-> {}]
    ELSE IF hint \in {TJUH_HINT_XBOX_ONE, TJUH_HINT_SWITCH_PRO}
    THEN HintStage(data, actual_len, report_out, hint)
    ELSE IdentityStage(reg, dev_addr, data, actual_len, max_ep_size, report_out)

(***************************************************************************)
(* Buffer pool (tjuh.c).  owner[i] is s_buf_owner[i]; 0 is "no owner".     *)
(***************************************************************************)
\* the pool searched from its last buffer
buf_pool_alloc_HighestFree(owner, dev_addr) ==
    LET free == {i \in 0..(BUF_POOL_SIZE - 1) : owner[i] = 0}
        last == CHOOSE i \in free : \A j \in free : i >= j
    IN IF free = {} THEN [ok |-> FALSE, buf |-> 0, owner |-> owner]
       ELSE [ok |-> TRUE, buf |-> last,
             owner |-> [owner EXCEPT ![last] = dev_addr]]

buf_pool_alloc(owner, dev_addr) ==
    LET free == {i \in 0..(BUF_POOL_SIZE - 1) : owner[i] = 0}
        first == CHOOSE i \in free : \A j \in free : i <= j
    IN IF free = {} THEN [ok |-> FALSE, buf |-> 0, owner |-> owner]
       ELSE [ok |-> TRUE, buf |-> first,
             owner |-> [owner EXCEPT ![first] = dev_addr]]

\* a free that releases every buffer of the pool
buf_pool_free_All(owner, dev_addr) == [i \in 0..(BUF_POOL_SIZE - 1) |-> 0]

\* the loop of buf_pool_free left at the first buffer it releases
buf_pool_free_FirstOnly(owner, dev_addr) ==
    LET mine == {i \in 0..(BUF_POOL_SIZE - 1) : owner[i] = dev_addr}
        first == CHOOSE i \in mine : \A j \in mine : i <= j
    IN IF mine = {} THEN owner ELSE [owner EXCEPT ![first] = 0]

buf_pool_free(owner, dev_addr) ==
    [i \in 0..(BUF_POOL_SIZE - 1) |->
        IF owner[i] = dev_addr THEN 0 ELSE owner[i]]

(***************************************************************************)
(* The host.  H gathers the state the callbacks read and write:            *)
(*   dev    s_devices (tjuh.c): idVendor, idProduct, hint, max_hid_buf_size*)
(*   mask   s_assigned_mask                                                *)
(*   owner  s_buf_owner                                                    *)
(*   reg    the registry of tjuh_parse.c                                   *)
(* and the transport's side of it:                                         *)
(*   att    the addresses mounted and not yet unmounted                    *)
(*   eps    the endpoints opened, <<address, endpoint address>>            *)
(*   xf     the read transfers submitted and not yet completed             *)
(*   busy   the OUT endpoints with a transfer submitted and not completed  *)
(*   sent   per address, the packets the transport took from this device   *)
(***************************************************************************)
s_dev_init == [vid |-> 0, pid |-> 0, hint |-> TJUH_HINT_NONE, max_hid_buf_size |-> 0]

s_xboxone_start_input == << 5, 32, 3, 1, 0 >>

s_switch_handshake == << 128, 2 >>

s_switch_force_usb == << 128, 4 >>

\* tuh_edpt_open: the transport opens an endpoint of a mounted device, or
\* fails (open_ok is the transport's answer for this endpoint)
tuh_edpt_open(H, daddr, ep) ==
    IF daddr \in H.att /\ ep.open_ok
    THEN [ok |-> TRUE, H |-> [H EXCEPT !.eps = @ \cup {<<daddr, ep.addr>>}]]
    ELSE [ok |-> FALSE, H |-> H]

\* an endpoint that is never seen busy
usbh_edpt_busy_Never(H, daddr, ep_addr) == FALSE

\* usbh_edpt_busy
usbh_edpt_busy(H, daddr, ep_addr) == <<daddr, ep_addr>> \in H.busy

\* tuh_edpt_xfer of a read transfer: taken when the endpoint is open and has
\* no transfer of its own in flight
tuh_edpt_xfer(H, xfer) ==
    IF /\ <<xfer.daddr, xfer.ep_addr>> \in H.eps
       /\ ~\E t \in H.xf : /\ ~t.stale
                           /\ t.daddr = xfer.daddr
                           /\ t.ep_addr = xfer.ep_addr
    THEN [H EXCEPT !.xf = @ \cup {xfer}]
    ELSE H

\* send_xinput_report: the packet is copied to s_epout_buf and submitted with
\* no completion callback
send_xinput_report(H, dev_addr, ep_out, data) ==
    IF Len(data) > BUF_SIZE THEN H
    ELSE IF <<dev_addr, ep_out>> \in H.eps /\ <<dev_addr, ep_out>> \notin H.busy
    THEN [H EXCEPT !.busy = @ \cup {<<dev_addr, ep_out>>},
                   !.sent[dev_addr] = Append(@, data)]
    ELSE H

(***************************************************************************)
(* parse_config_descriptor and open_hid_interface.                         *)
(*                                                                         *)
(* A configuration is the sequence of the top-level entries the walk       *)
(* meets: kind "itf" for an interface (with drv_len as                     *)
(* count_interface_total_len computes it, bNumEndpoints, and eps, the      *)
(* descriptors the endpoint loop reads at desc_ep), anything else for an   *)
(* entry that ends the walk.                                               *)
(*                                                                         *)
(* A position c = [a, cfg, k, i, found, phase, stale] is a point of the    *)
(* walk: entry k, loop index i (from 1), ep_in_found, stale once the       *)
(* device it walks for was detached, and phase                             *)
(*   "itf"       the head of the while loop of parse_config_descriptor     *)
(*   "ep"        the head of the for loop of open_hid_interface            *)
(*   "xbox_wait" the busy-wait before the Xbox One start-input packet      *)
(*   "sw_check"  the test of the hint for SwitchPro on an OUT endpoint     *)
(*   "sw_wait1"  the busy-wait before the Switch handshake                 *)
(*   "sw_wait2"  the busy-wait before the Switch force-USB packet          *)
(* Walk runs from a position to the end of parse_config_descriptor or to   *)
(* a busy-wait whose endpoint is busy, where tuh_task() is re-entered.     *)
(***************************************************************************)
NoPos ==
    [a |-> 0, cfg |-> << >>, k |-> 0, i |-> 0, found |-> FALSE, phase |-> "none",
     stale |-> FALSE]

StartPos(a, cfg) ==
    [a |-> a, cfg |-> cfg, k |-> 1, i |-> 1, found |-> FALSE, phase |-> "itf",
     stale |-> FALSE]

NextItf(c) == [c EXCEPT !.k = c.k + 1, !.i = 1, !.found = FALSE, !.phase = "itf"]

NextEp(c) == [c EXCEPT !.i = c.i + 1, !.phase = "ep"]

\* the Xbox One detection without its test of the hint
DetectXboxOne_AnyHint(H, daddr, itf) ==
    IF itf.drv_len = 23 /\ (9 + 9 + itf.bNumEndpoints * 7) % 65536 = 32
    THEN [H EXCEPT !.dev[daddr].hint = TJUH_HINT_XBOX_ONE]
    ELSE H

\* the Xbox One detection at the head of open_hid_interface
DetectXboxOne(H, daddr, itf) ==
    LET max_len == itf.drv_len
        expected_len == (9 + 9 + itf.bNumEndpoints * 7) % 65536
    IN IF /\ H.dev[daddr].hint = TJUH_HINT_NONE
          /\ max_len = 23 /\ expected_len = 32 /\ max_len < expected_len
       THEN [H EXCEPT !.dev[daddr].hint = TJUH_HINT_XBOX_ONE]
       ELSE H

\* the IN branch of the endpoint loop, after tuh_edpt_open succeeded
OpenIn(H, daddr, ep) ==
    LET al == buf_pool_alloc(H.owner, daddr)
        H1 == [H EXCEPT !.owner = al.owner,
                        !.dev[daddr].max_hid_buf_size = ep.mps]
    IN IF ~al.ok THEN [ok |-> FALSE, H |-> H]
       ELSE [ok |-> TRUE,
             H |-> tuh_edpt_xfer(H1, [daddr |-> daddr, ep_addr |-> ep.addr,
                                      buflen |-> ep.mps, buf |-> al.buf,
                                      stale |-> FALSE])]

RECURSIVE Walk(_, _)
Walk(H, c) ==
    LET daddr == c.a
        done == [H |-> H, spin |-> FALSE, c |-> NoPos]
        spin == [H |-> H, spin |-> TRUE, c |-> c]
    IN
    IF c.k > Len(c.cfg) THEN done
    ELSE
    LET itf == c.cfg[c.k]
        ep == itf.eps[c.i]
        hint == H.dev[daddr].hint
        busy == usbh_edpt_busy(H, daddr, ep.addr)
    IN
    CASE c.phase = "itf" ->
            IF itf.kind # "itf" \/ itf.drv_len < 9 THEN done
            ELSE Walk(DetectXboxOne(H, daddr, itf), [c EXCEPT !.phase = "ep"])
      [] c.phase = "ep" ->
            IF c.i > itf.bNumEndpoints
            THEN (IF c.found THEN done ELSE Walk(H, NextItf(c)))
            ELSE IF ep.type # "endpoint" /\ hint # TJUH_HINT_XBOX_ONE
            THEN Walk(H, NextItf(c))
            ELSE IF ep.dir = "in" /\ ~c.found
            THEN LET o == tuh_edpt_open(H, daddr, ep)
                     r == OpenIn(o.H, daddr, ep)
                 IN IF ~o.ok THEN Walk(H, NextItf(c))
                    ELSE IF ~r.ok THEN Walk(o.H, NextItf(c))
                    ELSE Walk(r.H, [NextEp(c) EXCEPT !.found = TRUE])
            ELSE IF ep.dir = "out" /\ hint = TJUH_HINT_XBOX_ONE
            THEN LET o == tuh_edpt_open(H, daddr, ep)
                 IN IF ~o.ok THEN Walk(H, [c EXCEPT !.phase = "sw_check"])
                    ELSE Walk(o.H, [c EXCEPT !.phase = "xbox_wait"])
            ELSE IF ep.dir = "out"
            THEN Walk(H, [c EXCEPT !.phase = "sw_check"])
            ELSE Walk(H, NextEp(c))
      [] c.phase = "xbox_wait" ->
            IF busy THEN spin
            ELSE Walk(send_xinput_report(H, daddr, ep.addr, s_xboxone_start_input),
                      [c EXCEPT !.phase = "sw_check"])
      [] c.phase = "sw_check" ->
            IF hint # TJUH_HINT_SWITCH_PRO THEN Walk(H, NextEp(c))
            ELSE LET o == tuh_edpt_open(H, daddr, ep)
                 IN IF ~o.ok THEN Walk(H, NextEp(c))
                    ELSE Walk(o.H, [c EXCEPT !.phase = "sw_wait1"])
      [] c.phase = "sw_wait1" ->
            IF busy THEN spin
            ELSE Walk(send_xinput_report(H, daddr, ep.addr, s_switch_handshake),
                      [c EXCEPT !.phase = "sw_wait2"])
      [] c.phase = "sw_wait2" ->
            IF busy THEN spin
            ELSE Walk(send_xinput_report(H, daddr, ep.addr, s_switch_force_usb),
                      NextEp(c))

parse_config_descriptor(H, dev_addr, desc_cfg) == Walk(H, StartPos(dev_addr, desc_cfg))

(***************************************************************************)
(* The reports the devices send.  A buffer is the BUF_SIZE bytes of a pool *)
(* buffer after a transfer: data[0] = id, data[i] = base + step * i; the   *)
(* bytes at and after actual_len are what the buffer held before.          *)
(***************************************************************************)
Buffer(id, base, step) ==
    [i \in 0..(BUF_SIZE - 1) |-> IF i = 0 THEN id ELSE (base + step * i) % 256]

\* how a read transfer completes: its result, xferred_bytes and the bytes
\* the transport left in the buffer
HostCompletions ==
    { [success |-> FALSE, actual_len |-> 0, data |-> Buffer(0, 0, 0)],
      [success |-> TRUE, actual_len |-> 9, data |-> Buffer(1, 100, 17)],
      [success |-> TRUE, actual_len |-> 20, data |-> Buffer(48, 0, 0)] }

\* what the registry can hold for an address, the identities being those of
\* HostDevices below
HostRegEntries ==
    {ZeroEntry} \cup {[dev_addr |-> a, vid |-> v[1], pid |-> v[2]] :
                         a \in 1..TJUH_MAX_DEVICES,
                         v \in {<<1118, 654>>, <<1118, 721>>,
                                <<VID_NINTENDO, PID_SWITCH_PRO>>}}

\* the values of max_hid_buf_size: after mount, the endpoints' wMaxPacketSize,
\* after unmount
HostMaxSizes == {0, 8, 32, 64}

\* the calls on_report_received makes to tjuh_parse_report: the registry
\* entry of the address, the address, the hint, max_hid_buf_size, and the
\* length and bytes received
ReportCalls ==
    HostRegEntries \X (1..TJUH_MAX_DEVICES) \X Hints \X HostMaxSizes
        \X { << e.actual_len, e.data >> : e \in {c \in HostCompletions : c.success} }

\* tjuh_parse_report for each of these calls (it reads the registry at
\* dev_addr only); @@ makes the function a table, computed once
report_parsed ==
    [k \in ReportCalls |->
        tjuh_parse_report([a \in 1..TJUH_MAX_DEVICES |->
                              IF a = k[2] THEN k[1] ELSE ZeroEntry],
                          k[2], k[5][2], k[5][1], k[4] % 65536, s_zero_report,
                          k[3])] @@ << >>

(***************************************************************************)
(* The callbacks.                                                          *)
(***************************************************************************)
\* tuh_mount_cb; the transport has the address mounted from here on, and
\* the device-descriptor request is pending unless the address was refused
tuh_mount_cb(H, dev_addr) ==
    LET H0 == [H EXCEPT !.att = @ \cup {dev_addr}]
    IN IF dev_addr > TJUH_MAX_DEVICES THEN H0
       ELSE [H0 EXCEPT !.dev[dev_addr] = s_dev_init,
                       !.mask = SetBit(@, dev_addr, TRUE),
                       !.sent[dev_addr] = << >>,
                       !.ctrl = @ \cup {dev_addr}]

\* tuh_umount_cb; the transport closes the device's endpoints and drops its
\* control request and OUT transfers, and a read transfer still in flight
\* stays in flight, its device gone
tuh_umount_cb(H, dev_addr) ==
    LET H0 == [H EXCEPT
                 !.att = @ \ {dev_addr},
                 !.ctrl = @ \ {dev_addr},
                 !.eps = {e \in @ : e[1] # dev_addr},
                 !.busy = {e \in @ : e[1] # dev_addr},
                 !.xf = {IF t.daddr = dev_addr THEN [t EXCEPT !.stale = TRUE]
                         ELSE t : t \in @},
                 !.sent = [a \in DOMAIN @ |-> IF a = dev_addr THEN << >> ELSE @[a]],
                 !.reg = tjuh_parse_free_device(@, dev_addr).reg,
                 !.owner = buf_pool_free(@, dev_addr)]
    IN IF dev_addr <= TJUH_MAX_DEVICES
       THEN [H0 EXCEPT !.dev[dev_addr].hint = TJUH_HINT_NONE,
                       !.dev[dev_addr].max_hid_buf_size = 64,
                       !.mask = SetBit(@, dev_addr, FALSE)]
       ELSE H0

\* on_device_descriptor: the transport wrote idVendor and idProduct into
\* s_devices[daddr].desc_device; cfg_ok is the result of
\* tuh_descriptor_get_configuration_sync and desc_cfg what it fetched
on_device_descriptor(H, daddr, success, vid, pid, cfg_ok, desc_cfg) ==
    LET H0 == [H EXCEPT !.ctrl = @ \ {daddr}]
        H1 == [H0 EXCEPT !.dev[daddr].vid = vid, !.dev[daddr].pid = pid]
        ini == tjuh_parse_init_device(H1.reg, daddr, vid, pid)
        H2 == [H1 EXCEPT
                 !.reg = ini.reg,
                 !.dev[daddr].hint =
                     IF vid = VID_NINTENDO
                        /\ pid \in {PID_SWITCH_PRO, PID_JOYCON_L, PID_JOYCON_R}
                     THEN TJUH_HINT_SWITCH_PRO ELSE @]
    IN IF ~success
       THEN [H |-> H0, spin |-> FALSE, c |-> NoPos, on_connect |-> FALSE]
       ELSE IF ~ini.ok
       THEN [H |-> H1, spin |-> FALSE, c |-> NoPos, on_connect |-> FALSE]
       ELSE IF ~cfg_ok
       THEN [H |-> H2, spin |-> FALSE, c |-> NoPos, on_connect |-> TRUE]
       ELSE LET w == parse_config_descriptor(H2, daddr, desc_cfg)
            IN [H |-> w.H, spin |-> w.spin, c |-> w.c, on_connect |-> TRUE]

\* on_report_received that polls again only after a report it delivered
on_report_received_DropStops(H, xfer, success, actual_len, data) ==
    LET daddr == xfer.daddr
        H0 == [H EXCEPT !.xf = @ \ {xfer}]
        max == H.dev[daddr].max_hid_buf_size
        p == IF success
             THEN report_parsed[<< H.reg[daddr], daddr, H.dev[daddr].hint, max,
                                   << actual_len, data >> >>]
             ELSE [ok |-> FALSE, rpt |-> s_zero_report, reads |-> {}]
        buflen == IF max = 32 /\ actual_len = 20 THEN actual_len ELSE max
    IN [H |-> IF p.ok
              THEN tuh_edpt_xfer(H0, [xfer EXCEPT !.buflen = buflen,
                                                  !.stale = FALSE])
              ELSE H0,
        on_report |-> p.ok,
        report |-> IF p.ok THEN p.rpt ELSE s_zero_report,
        resubmit |-> p.ok]

\* on_report_received for the completed transfer xfer; data is what the
\* buffer holds.  Returns the state, whether on_report was called and with
\* which report.
on_report_received(H, xfer, success, actual_len, data) ==
    LET daddr == xfer.daddr
        H0 == [H EXCEPT !.xf = @ \ {xfer}]
        max == H.dev[daddr].max_hid_buf_size
        p == IF success
             THEN report_parsed[<< H.reg[daddr], daddr, H.dev[daddr].hint, max,
                                   << actual_len, data >> >>]
             ELSE [ok |-> FALSE, rpt |-> s_zero_report, reads |-> {}]
        buflen == IF max = 32 /\ actual_len = 20 THEN actual_len ELSE max
    IN [H |-> tuh_edpt_xfer(H0, [xfer EXCEPT !.buflen = buflen, !.stale = FALSE]),
        on_report |-> p.ok,
        report |-> IF p.ok THEN p.rpt ELSE s_zero_report,
        resubmit |-> TRUE]

(***************************************************************************)
(* State.                                                                  *)
(***************************************************************************)
VARIABLES
    parse_s_devices,  \* tjuh_parse.c s_devices: the registry, by dev_addr
    reg_ops,          \* registry operations made so far (ParseSpec)
    p_pc,             \* "setup"; "done" after tjuh_parse_report was called;
                      \* "reg" after a registry call of RegSpec
    p_args,           \* the arguments of that call
    p_ret,            \* what that call returned
    reg_hist,         \* RegSpec: by address, the last init or free made on it
    s_devices,        \* tjuh.c s_devices, by dev_addr (index 0 unused)
    s_assigned_mask,  \* tjuh.c s_assigned_mask
    s_buf_owner,      \* tjuh.c s_buf_owner, by buffer index
    attached,         \* transport: addresses mounted
    ctrl_pending,     \* transport: device-descriptor requests pending
    open_eps,         \* transport: endpoints opened
    xfers,            \* transport: read transfers in flight
    out_busy,         \* transport: OUT endpoints busy
    sent,             \* transport: packets taken on OUT endpoints
    enum_stack,       \* open_hid_interface calls waiting in tuh_task()
    mounts,           \* attach events so far
    last_cb           \* what the last callback did

parsevars == << reg_ops, p_pc, p_args, p_ret, reg_hist >>

hostvars == << s_devices, s_assigned_mask, s_buf_owner, attached, ctrl_pending,
               open_eps, xfers, out_busy, sent, enum_stack, mounts, last_cb >>

vars == << parse_s_devices, parsevars, hostvars >>

(***************************************************************************)
(* Inputs of the parser.                                                   *)
(***************************************************************************)
\* identities a device descriptor may carry: the Sony and Nintendo products
\* the code names, Sony with PID 0, a Nintendo product the code does not
\* name, another vendor, and the all-zero identity
Identities ==
    { <<VID_SONY, PID_DS4_V2>>, <<VID_SONY, PID_DUALSENSE>>,
      <<VID_SONY, PID_DUALSENSE_EDGE>>, <<VID_SONY, 0>>,
      <<VID_NINTENDO, PID_SWITCH_PRO>>, <<VID_NINTENDO, 774>>,
      <<1118, 654>>, <<0, 0>> }

\* 0 and TJUH_MAX_DEVICES + 1 are out of range
Addrs == 0..(TJUH_MAX_DEVICES + 1)

Lens == {0, 3, 20} \cup (7..MaxLen)

EpSizes == {4, 8, 32, 64}

\* report IDs: the two Switch IDs, the ends of 1..4 and their neighbours
ReportIds == {0, 1, 4, 5, 48, 63}

\* the buffers tjuh_parse_report is called with; the flat ones have
\* every axis byte at an end of 96..160 or next to it
Buffers ==
    { Buffer(id, base, step) :
         id \in ReportIds, base \in {0, 100}, step \in {0, 17} }
    \cup { Buffer(1, base, 0) : base \in {95, 96, 160, 161} }

NoArgs == [dev_addr |-> 0, data |-> Buffer(0, 0, 0), actual_len |-> 0,
           max_ep_size |-> 0, hint |-> TJUH_HINT_NONE]

NoRet == [ok |-> FALSE, rpt |-> s_zero_report, reads |-> {}]

\* no init or free made yet
NoRegOp == [op |-> "none", vid |-> 0, pid |-> 0]

(***************************************************************************)
(* ParseSpec: registry operations, then one call of tjuh_parse_report.     *)
(***************************************************************************)
NoCb ==
    [cb |-> "none", daddr |-> 0, stale |-> FALSE, on_report |-> FALSE,
     report |-> s_zero_report, resubmit |-> FALSE, buf |-> 0, owned |-> FALSE,
     on_connect |-> FALSE, on_disconnect |-> FALSE,
     bad_tag |-> FALSE, spin |-> FALSE, mismatch |-> FALSE, success |-> FALSE]

\* the state after tjuh_init
Init ==
    /\ parse_s_devices = [a \in 1..TJUH_MAX_DEVICES |-> ZeroEntry]
    /\ reg_ops = 0
    /\ p_pc = "setup"
    /\ p_args = NoArgs
    /\ p_ret = NoRet
    /\ reg_hist = [a \in Addrs |-> NoRegOp]
    /\ s_devices = [a \in 0..TJUH_MAX_DEVICES |-> s_dev_init]
    /\ s_assigned_mask = 0
    /\ s_buf_owner = [i \in 0..(BUF_POOL_SIZE - 1) |-> 0]
    /\ attached = {}
    /\ ctrl_pending = {}
    /\ open_eps = {}
    /\ xfers = {}
    /\ out_busy = {}
    /\ sent = [a \in 1..TJUH_MAX_DEVICES |-> << >>]
    /\ enum_stack = << >>
    /\ mounts = 0
    /\ last_cb = NoCb

\* tjuh_parse_init_device(a, v, p), for any address and identity
RegInitDevice ==
    /\ p_pc = "setup"
    /\ reg_ops < MaxRegOps
    /\ \E a \in Addrs, id \in Identities :
          parse_s_devices' =
              tjuh_parse_init_device(parse_s_devices, a, id[1], id[2]).reg
    /\ reg_ops' = reg_ops + 1
    /\ UNCHANGED << p_pc, p_args, p_ret, reg_hist, hostvars >>

\* tjuh_parse_free_device(a), for any address
RegFreeDevice ==
    /\ p_pc = "setup"
    /\ reg_ops < MaxRegOps
    /\ \E a \in Addrs :
          parse_s_devices' = tjuh_parse_free_device(parse_s_devices, a).reg
    /\ reg_ops' = reg_ops + 1
    /\ UNCHANGED << p_pc, p_args, p_ret, reg_hist, hostvars >>

\* tjuh_parse_report on any address, buffer, length, endpoint size and hint,
\* with *report_out zeroed as on_report_received zeroes it
ParseCall ==
    /\ p_pc = "setup"
    /\ p_pc' = "done"
    /\ \E a \in Addrs, data \in Buffers, len \in Lens, mps \in EpSizes,
          hint \in Hints :
          /\ p_args' = [dev_addr |-> a, data |-> data, actual_len |-> len,
                        max_ep_size |-> mps, hint |-> hint]
          /\ p_ret' = tjuh_parse_report(parse_s_devices, a, data, len, mps,
                                        s_zero_report, hint)
    /\ UNCHANGED << parse_s_devices, reg_ops, reg_hist, hostvars >>

ParseNext == RegInitDevice \/ RegFreeDevice \/ ParseCall

ParseSpec == Init /\ [][ParseNext]_vars

(***************************************************************************)
(* RegSpec: any sequence of tjuh_parse_init_device, tjuh_parse_free_device *)
(* and tjuh_parse_get_vid_pid (which tjuh_get_device_info returns), on any *)
(* address.  p_args holds the call, p_ret its result, the registry before  *)
(* it and the last init or free made before it on the address.             *)
(***************************************************************************)
\* identities given to init in RegSpec: a vid of 0 with and without a pid
RegIdentities ==
    { <<0, 0>>, <<0, 774>>, <<VID_SONY, PID_DS4_V2>>,
      <<VID_NINTENDO, PID_SWITCH_PRO>> }

RegInit ==
    /\ p_pc \in {"setup", "reg"}
    /\ \E a \in Addrs, id \in RegIdentities :
          LET r == tjuh_parse_init_device(parse_s_devices, a, id[1], id[2])
          IN /\ parse_s_devices' = r.reg
             /\ reg_hist' = [reg_hist EXCEPT
                                ![a] = [op |-> "init", vid |-> id[1], pid |-> id[2]]]
             /\ p_args' = [op |-> "init", dev_addr |-> a,
                           vid |-> id[1], pid |-> id[2]]
             /\ p_ret' = [ok |-> r.ok, vid |-> 0, pid |-> 0,
                          before |-> parse_s_devices, hist |-> reg_hist[a]]
    /\ p_pc' = "reg"
    /\ UNCHANGED << reg_ops, hostvars >>

RegFree ==
    /\ p_pc \in {"setup", "reg"}
    /\ \E a \in Addrs :
          LET r == tjuh_parse_free_device(parse_s_devices, a)
          IN /\ parse_s_devices' = r.reg
             /\ reg_hist' = [reg_hist EXCEPT
                                ![a] = [op |-> "free", vid |-> 0, pid |-> 0]]
             /\ p_args' = [op |-> "free", dev_addr |-> a, vid |-> 0, pid |-> 0]
             /\ p_ret' = [ok |-> r.ok, vid |-> 0, pid |-> 0,
                          before |-> parse_s_devices, hist |-> reg_hist[a]]
    /\ p_pc' = "reg"
    /\ UNCHANGED << reg_ops, hostvars >>

RegGet ==
    /\ p_pc \in {"setup", "reg"}
    /\ \E a \in Addrs :
          LET r == tjuh_parse_get_vid_pid(parse_s_devices, a)
          IN /\ p_args' = [op |-> "get", dev_addr |-> a, vid |-> 0, pid |-> 0]
             /\ p_ret' = [ok |-> r.ok, vid |-> r.vid, pid |-> r.pid,
                          before |-> parse_s_devices, hist |-> reg_hist[a]]
    /\ p_pc' = "reg"
    /\ UNCHANGED << parse_s_devices, reg_hist, reg_ops, hostvars >>

RegNext == RegInit \/ RegFree \/ RegGet

RegSpec == Init /\ [][RegNext]_vars

(***************************************************************************)
(* WalkSpec: parse_config_descriptor and count_interface_total_len, one    *)
(* loop iteration per step, over the bytes of a descriptor buffer.         *)
(* p_args holds the buffer and its wTotalLength, p_ret the locals of the   *)
(* two functions, p_pc the loop the walk is in:                            *)
(*   "w_while"  the head of the while loop of parse_config_descriptor      *)
(*   "w_outer"  the head of while (itf_count--)                            *)
(*   "w_inner"  the head of while (len < max_len)                          *)
(*   "w_count"  count_interface_total_len has returned                     *)
(*   "w_done"   parse_config_descriptor has returned                       *)
(*   "w_oob"    a read past the end of the buffer                          *)
(* Offsets are from desc_cfg.  open_hid_interface is its result only; what *)
(* it does is in Walk above.                                               *)
(***************************************************************************)
TUSB_DESC_CONFIGURATION == 2
TUSB_DESC_INTERFACE == 4
TUSB_DESC_ENDPOINT == 5
TUSB_DESC_INTERFACE_ASSOCIATION == 11
HID_DESC_TYPE_HID == 33

\* the bytes of one descriptor: bLength, bDescriptorType, and at offset 3
\* bAlternateSetting (interface) or bInterfaceCount (association); phys is
\* the number of bytes it takes in the buffer
DescBytes(d) ==
    [i \in 1..d.phys |-> IF i = 1 THEN d.len
                         ELSE IF i = 2 THEN d.type
                         ELSE IF i = 4 THEN d.b3 ELSE 0]

D(len, type, b3) == [len |-> len, type |-> type, b3 |-> b3, phys |-> len]

\* a descriptor that says bLength 0 and takes four bytes
Z(type, b3) == [len |-> 0, type |-> type, b3 |-> b3, phys |-> 4]

RECURSIVE Flatten(_)
Flatten(ds) ==
    IF ds = << >> THEN << >> ELSE DescBytes(Head(ds)) \o Flatten(Tail(ds))

DCfg == D(9, TUSB_DESC_CONFIGURATION, 0)

DItf(alt) == D(9, TUSB_DESC_INTERFACE, alt)

DHid == D(9, HID_DESC_TYPE_HID, 0)

DEp == D(7, TUSB_DESC_ENDPOINT, 0)

DIad(count) == D(8, TUSB_DESC_INTERFACE_ASSOCIATION, count)

\* the configuration descriptors fetched into temp_buf
WalkBuffers ==
    { Flatten(ds) : ds \in
        { << DCfg, DItf(0), DHid, DEp >>,
          << DCfg, DItf(0), DHid, DEp, DItf(0), DHid, DEp, DEp >>,
          << DCfg, DItf(0), DHid, DEp, DItf(1), DEp >>,
          << DCfg, DIad(1), DItf(0), DHid, DEp >>,
          << DCfg, DIad(2), DItf(0), DEp, DItf(0), DEp, DItf(0), DEp >>,
          << DCfg, DIad(0), DItf(0), DHid, DEp >>,
          << DCfg, DIad(255), DItf(0), DEp, DItf(0), DEp >>,
          << DCfg, DItf(0), DEp, DIad(1), DItf(0), DEp >>,
          << DCfg, DItf(0), Z(HID_DESC_TYPE_HID, 0), DEp >>,
          << DCfg, DItf(0), DHid, Z(TUSB_DESC_ENDPOINT, 0) >>,
          << DCfg, DItf(0), Z(TUSB_DESC_INTERFACE, 0), DEp >>,
          << DCfg, Z(TUSB_DESC_INTERFACE, 0), DEp >>,
          << DCfg, Z(TUSB_DESC_INTERFACE_ASSOCIATION, 1), DItf(0), DEp >>,
          << DCfg, DEp >>,
          << Z(TUSB_DESC_CONFIGURATION, 0), DItf(0), DEp >> } }

\* wTotalLength as declared: nothing, the configuration descriptor alone,
\* short of the buffer, the buffer, more than the buffer
WalkTotals(buf) == {0, 9, Len(buf) - 7, Len(buf), Len(buf) + 9}

InBuf(buf, off) == off >= 0 /\ off < Len(buf)

rd(buf, off) == buf[off + 1]

tu_desc_len(buf, p) == rd(buf, p)

tu_desc_type(buf, p) == rd(buf, p + 1)

tu_desc_next(buf, p) == p + rd(buf, p)

\* the locals of the two functions before the call
NoWalk ==
    [p_desc |-> 0, desc_end |-> 0, interface_count |-> 0, desc_itf |-> 0,
     itf_count |-> 0, max_len |-> 0, len |-> 0, cp |-> 0]

WalkGoto(pc, w) ==
    /\ p_pc' = pc
    /\ p_ret' = w
    /\ UNCHANGED << p_args, parse_s_devices, reg_ops, reg_hist, hostvars >>

\* parse_config_descriptor is called: desc_end, p_desc = tu_desc_next(desc_cfg)
WalkCall ==
    /\ p_pc = "setup"
    /\ \E buf \in WalkBuffers :
         \E total \in WalkTotals(buf) :
            /\ p_args' = [buf |-> buf, wTotalLength |-> total]
            /\ p_ret' = [NoWalk EXCEPT !.desc_end = total,
                                       !.p_desc = tu_desc_next(buf, 0)]
    /\ p_pc' = "w_while"
    /\ UNCHANGED << parse_s_devices, reg_ops, reg_hist, hostvars >>

\* one test of while (p_desc < desc_end) and the loop body down to the call
\* of count_interface_total_len
WalkWhile ==
    /\ p_pc = "w_while"
    /\ LET buf == p_args.buf
           w == p_ret
           iad == /\ InBuf(buf, w.p_desc + 1)
                  /\ tu_desc_type(buf, w.p_desc) = TUSB_DESC_INTERFACE_ASSOCIATION
           p == IF iad THEN tu_desc_next(buf, w.p_desc) ELSE w.p_desc
           assoc_itf_count == IF iad /\ InBuf(buf, w.p_desc + 3)
                              THEN rd(buf, w.p_desc + 3) ELSE 1
       IN IF ~(w.p_desc < w.desc_end) THEN WalkGoto("w_done", w)
          ELSE IF ~InBuf(buf, w.p_desc + 1) \/ (iad /\ ~InBuf(buf, w.p_desc + 3))
                  \/ ~InBuf(buf, p + 1)
          THEN WalkGoto("w_oob", w)
          ELSE IF tu_desc_type(buf, p) # TUSB_DESC_INTERFACE
          THEN WalkGoto("w_done", [w EXCEPT !.p_desc = p])
          ELSE WalkGoto("w_outer",
                        [w EXCEPT !.p_desc = p, !.desc_itf = p, !.cp = p,
                                  !.itf_count = assoc_itf_count,
                                  !.max_len = (w.desc_end - p) % 65536,
                                  !.len = 0])

\* one test of while (itf_count--) and the two statements before the inner
\* loop
WalkOuter ==
    /\ p_pc = "w_outer"
    /\ LET buf == p_args.buf
           w == p_ret
       IN IF w.itf_count = 0 THEN WalkGoto("w_count", w)
          ELSE IF ~InBuf(buf, w.cp)
          THEN WalkGoto("w_oob", w)
          ELSE WalkGoto("w_inner",
                        [w EXCEPT !.itf_count = w.itf_count - 1,
                                  !.len = (w.len + tu_desc_len(buf, w.desc_itf))
                                             % 65536,
                                  !.cp = tu_desc_next(buf, w.cp)])

\* one test of while (len < max_len) and one pass of its body
WalkInner ==
    /\ p_pc = "w_inner"
    /\ LET buf == p_args.buf
           w == p_ret
       IN IF ~(w.len < w.max_len) THEN WalkGoto("w_outer", w)
          ELSE IF ~InBuf(buf, w.cp + 1) THEN WalkGoto("w_oob", w)
          ELSE IF tu_desc_type(buf, w.cp) = TUSB_DESC_INTERFACE_ASSOCIATION
          THEN WalkGoto("w_count", w)
          ELSE IF tu_desc_type(buf, w.cp) = TUSB_DESC_INTERFACE
                  /\ ~InBuf(buf, w.cp + 3)
          THEN WalkGoto("w_oob", w)
          ELSE IF tu_desc_type(buf, w.cp) = TUSB_DESC_INTERFACE
                  /\ rd(buf, w.cp + 3) = 0
          THEN WalkGoto("w_outer", w)
          ELSE WalkGoto("w_inner",
                        [w EXCEPT !.len = (w.len + tu_desc_len(buf, w.cp))
                                             % 65536,
                                  !.cp = tu_desc_next(buf, w.cp)])

\* count_interface_total_len has returned drv_len: the rest of the loop body,
\* open_hid_interface answering either way
WalkCounted ==
    /\ p_pc = "w_count"
    /\ LET w == p_ret
           drv_len == w.len
       IN IF drv_len < 9 THEN WalkGoto("w_done", w)
          ELSE \E opened \in BOOLEAN :
                 WalkGoto("w_while",
                          [w EXCEPT !.interface_count =
                                        IF w.interface_count = 0 /\ opened
                                        THEN 1 ELSE @,
                                    !.p_desc = w.p_desc + drv_len])

WalkNext == WalkCall \/ WalkWhile \/ WalkOuter \/ WalkInner \/ WalkCounted

WalkSpec == Init /\ [][WalkNext]_vars

\* the processor goes on executing the walk
WalkLiveSpec == WalkSpec /\ WF_vars(WalkNext)

(***************************************************************************)
(* Xbox360Spec: one call of tjuh_parse_report on a 20-byte report of an    *)
(* unidentified device with a 32-byte endpoint, which parse_xbox360        *)
(* decodes.                                                                *)
(***************************************************************************)
\* a report with data[2] = b2 and the four axes at data[6..13] made of lo
\* and hi so that each axis takes every 16-bit value as lo and hi range over
\* the bytes
Xbox360Buffer(b2, lo, hi) ==
    [i \in 0..(BUF_SIZE - 1) |->
        CASE i = 2 -> b2
          [] i = 6 -> lo
          [] i = 7 -> hi
          [] i = 8 -> hi
          [] i = 9 -> lo
          [] i = 10 -> 255 - lo
          [] i = 11 -> hi
          [] i = 12 -> lo
          [] i = 13 -> 255 - hi
          [] OTHER -> 0]

Xbox360Call(data) ==
    /\ p_pc' = "done"
    /\ p_args' = [dev_addr |-> 1, data |-> data, actual_len |-> 20,
                  max_ep_size |-> 32, hint |-> TJUH_HINT_NONE]
    /\ p_ret' = tjuh_parse_report(parse_s_devices, 1, data, 20, 32,
                                  s_zero_report, TJUH_HINT_NONE)
    /\ UNCHANGED << parse_s_devices, reg_ops, reg_hist, hostvars >>

\* every value of the byte with the hat bits
Xbox360DpadCall ==
    /\ p_pc = "setup"
    /\ \E b2 \in Byte : Xbox360Call(Xbox360Buffer(b2, 0, 0))

\* every value of the axes
Xbox360AxisCall ==
    /\ p_pc = "setup"
    /\ \E lo \in Byte, hi \in Byte : Xbox360Call(Xbox360Buffer(0, lo, hi))

Xbox360Next == Xbox360DpadCall \/ Xbox360AxisCall

Xbox360Spec == Init /\ [][Xbox360Next]_vars

\* the addresses the transport mounts: TJUH_MAX_DEVICES + 1 is out of range
HostAddrs == 1..(TJUH_MAX_DEVICES + 1)

(***************************************************************************)
(* PoolSpec: any sequence of buf_pool_alloc and buf_pool_free.  Addresses  *)
(* are those the callbacks pass: open_hid_interface allocates for an       *)
(* address that tuh_mount_cb accepted, tuh_umount_cb frees for any address.*)
(* last_cb holds the call, its result and s_buf_owner before it.           *)
(***************************************************************************)
PoolAlloc ==
    \E a \in 1..TJUH_MAX_DEVICES :
        LET r == buf_pool_alloc(s_buf_owner, a)
        IN /\ s_buf_owner' = r.owner
           /\ last_cb' = [cb |-> "alloc", daddr |-> a, ok |-> r.ok,
                          buf |-> r.buf, before |-> s_buf_owner]
           /\ UNCHANGED << parse_s_devices, parsevars, s_devices,
                           s_assigned_mask, attached, ctrl_pending, open_eps,
                           xfers, out_busy, sent, enum_stack, mounts >>

PoolFree ==
    \E a \in HostAddrs :
        /\ s_buf_owner' = buf_pool_free(s_buf_owner, a)
        /\ last_cb' = [cb |-> "free", daddr |-> a, ok |-> TRUE, buf |-> 0,
                       before |-> s_buf_owner]
        /\ UNCHANGED << parse_s_devices, parsevars, s_devices,
                        s_assigned_mask, attached, ctrl_pending, open_eps,
                        xfers, out_busy, sent, enum_stack, mounts >>

PoolNext == PoolAlloc \/ PoolFree

PoolSpec == Init /\ [][PoolNext]_vars

(***************************************************************************)
(* The host: every step is one callback the transport makes from           *)
(* tuh_task(), or the return of tuh_task() into a busy-wait of             *)
(* open_hid_interface.  A callback made while a busy-wait is spinning runs *)
(* inside that wait's tuh_task().                                          *)
(***************************************************************************)
EpIn(addr, mps, open_ok) ==
    [type |-> "endpoint", dir |-> "in", addr |-> addr, mps |-> mps, open_ok |-> open_ok]

EpOut(addr, open_ok) ==
    [type |-> "endpoint", dir |-> "out", addr |-> addr, mps |-> 64, open_ok |-> open_ok]

EpBad(dir) ==
    [type |-> "other", dir |-> dir, addr |-> 2, mps |-> 64, open_ok |-> TRUE]

Itf(drv_len, eps) ==
    [kind |-> "itf", drv_len |-> drv_len, bNumEndpoints |-> Len(eps), eps |-> eps]

CfgPlain == << Itf(25, << EpIn(129, 32, TRUE) >>) >>

CfgOpenFails ==
    << Itf(25, << EpIn(129, 64, FALSE) >>),
       [kind |-> "other", drv_len |-> 0, bNumEndpoints |-> 0, eps |-> << >>] >>

CfgInOut == << Itf(32, << EpIn(129, 64, TRUE), EpOut(1, TRUE) >>) >>

CfgXboxOne == << Itf(23, << EpIn(129, 64, TRUE), EpBad("out") >>) >>

CfgBadThenGood ==
    << Itf(32, << EpIn(129, 8, TRUE), EpBad("in") >>),
       Itf(25, << EpIn(130, 8, TRUE) >>) >>

\* three alternate settings of one interface, all with IN endpoint 0x81, the
\* first two given up after the endpoint was opened: a device with this
\* configuration takes three pool buffers
CfgThreeIn ==
    << Itf(32, << EpIn(129, 8, TRUE), EpBad("in") >>),
       Itf(32, << EpIn(129, 8, TRUE), EpBad("in") >>),
       Itf(25, << EpIn(129, 8, TRUE) >>) >>

\* the configuration has an interface with a sub-descriptor, among those
\* the endpoint loop reads, that is not an endpoint descriptor
HasBadTag(cfg) ==
    \E k \in 1..Len(cfg) :
        /\ cfg[k].kind = "itf"
        /\ \E i \in 1..cfg[k].bNumEndpoints : cfg[k].eps[i].type # "endpoint"

\* the configuration has an interface whose length as counted is 23 while
\* its descriptors announce 32
HasMismatch(cfg) ==
    \E k \in 1..Len(cfg) :
        /\ cfg[k].kind = "itf"
        /\ cfg[k].drv_len = 23
        /\ (9 + 9 + cfg[k].bNumEndpoints * 7) % 65536 = 32

\* the devices that are plugged in: identity and configuration
HostDevices ==
    { [vid |-> 1118, pid |-> 654, cfg |-> CfgPlain],
      [vid |-> 1118, pid |-> 654, cfg |-> CfgOpenFails],
      [vid |-> 1118, pid |-> 721, cfg |-> CfgXboxOne],
      [vid |-> 1118, pid |-> 654, cfg |-> CfgBadThenGood],
      [vid |-> 1118, pid |-> 654, cfg |-> CfgThreeIn],
      [vid |-> VID_NINTENDO, pid |-> PID_SWITCH_PRO, cfg |-> CfgInOut],
      [vid |-> VID_NINTENDO, pid |-> PID_SWITCH_PRO, cfg |-> CfgXboxOne] }

HostState ==
    [dev |-> s_devices, mask |-> s_assigned_mask, owner |-> s_buf_owner,
     reg |-> parse_s_devices, att |-> attached, ctrl |-> ctrl_pending,
     eps |-> open_eps, xf |-> xfers, busy |-> out_busy, sent |-> sent]

SetHost(H) ==
    /\ s_devices' = H.dev
    /\ s_assigned_mask' = H.mask
    /\ s_buf_owner' = H.owner
    /\ parse_s_devices' = H.reg
    /\ attached' = H.att
    /\ ctrl_pending' = H.ctrl
    /\ open_eps' = H.eps
    /\ xfers' = H.xf
    /\ out_busy' = H.busy
    /\ sent' = H.sent

\* a device is attached at a free address: tuh_mount_cb
Mount ==
    \E a \in HostAddrs :
        /\ a \notin attached
        /\ mounts < MaxMounts
        /\ mounts' = mounts + 1
        /\ SetHost(tuh_mount_cb(HostState, a))
        /\ last_cb' = [NoCb EXCEPT !.cb = "mount", !.daddr = a]
        /\ UNCHANGED << enum_stack, parsevars >>

\* an attached device is detached: tuh_umount_cb, which ends with
\* on_disconnect; a walk of the device waiting in a busy-wait is stale from
\* here on
Umount ==
    \E a \in attached :
        /\ SetHost(tuh_umount_cb(HostState, a))
        /\ enum_stack' = [n \in DOMAIN enum_stack |->
                            IF enum_stack[n].a = a
                            THEN [enum_stack[n] EXCEPT !.stale = TRUE]
                            ELSE enum_stack[n]]
        /\ last_cb' = [NoCb EXCEPT !.cb = "umount", !.daddr = a,
                                   !.on_disconnect = TRUE]
        /\ UNCHANGED << mounts, parsevars >>

\* the device-descriptor request of an address completes: on_device_descriptor
DeviceDescriptor ==
    /\ \E a \in ctrl_pending, success \in BOOLEAN, d \in HostDevices,
          cfg_ok \in BOOLEAN :
        LET r == on_device_descriptor(HostState, a, success, d.vid, d.pid,
                                      cfg_ok, d.cfg)
        IN /\ SetHost(r.H)
           /\ enum_stack' = IF r.spin THEN << r.c >> \o enum_stack
                            ELSE enum_stack
           /\ last_cb' = [NoCb EXCEPT
                            !.cb = "descriptor", !.daddr = a,
                            !.on_connect = r.on_connect,
                            !.bad_tag = /\ success /\ cfg_ok /\ r.on_connect
                                        /\ HasBadTag(d.cfg),
                            !.mismatch = /\ success /\ cfg_ok /\ r.on_connect
                                         /\ HasMismatch(d.cfg),
                            !.spin = r.spin]
           /\ UNCHANGED << mounts, parsevars >>

\* tuh_task() returns into the innermost busy-wait and its endpoint is idle:
\* open_hid_interface goes on from there
SpinResume ==
    /\ enum_stack # << >>
    /\ LET c == Head(enum_stack)
           r == Walk(HostState, c)
       IN /\ ~usbh_edpt_busy(HostState, c.a, c.cfg[c.k].eps[c.i].addr)
          /\ SetHost(r.H)
          /\ enum_stack' = IF r.spin THEN << r.c >> \o Tail(enum_stack)
                           ELSE Tail(enum_stack)
          /\ last_cb' = [NoCb EXCEPT !.cb = "resume", !.daddr = c.a,
                                     !.spin = r.spin]
          /\ UNCHANGED << mounts, parsevars >>

\* a transfer on an OUT endpoint completes; it has no completion callback
OutComplete ==
    \E e \in out_busy :
        /\ out_busy' = out_busy \ {e}
        /\ last_cb' = [NoCb EXCEPT !.cb = "out", !.daddr = e[1]]
        /\ UNCHANGED << s_devices, s_assigned_mask, s_buf_owner,
                        parse_s_devices, attached, ctrl_pending, open_eps,
                        xfers, sent, enum_stack, mounts, parsevars >>

\* a read transfer in flight completes: on_report_received
ReportReceived ==
    \E xfer \in xfers, e \in HostCompletions :
        LET r == on_report_received(HostState, xfer, e.success, e.actual_len,
                                    e.data)
        IN /\ e.actual_len <= xfer.buflen
           /\ SetHost(r.H)
           /\ last_cb' = [NoCb EXCEPT
                            !.cb = "report", !.daddr = xfer.daddr,
                            !.stale = xfer.stale, !.success = e.success,
                            !.on_report = r.on_report, !.report = r.report,
                            !.resubmit = r.resubmit, !.buf = xfer.buf,
                            !.owned = (s_buf_owner[xfer.buf] = xfer.daddr)]
           /\ UNCHANGED << enum_stack, mounts, parsevars >>

Next == Mount \/ Umount \/ DeviceDescriptor \/ SpinResume \/ OutComplete \/ ReportReceived

Spec == Init /\ [][Next]_vars


(***************************************************************************)
(* Claims about tjuh_parse_report (ParseSpec).                             *)
(***************************************************************************)
Called == p_pc = "done"

\* the registry holds an identity for the address of the call
HaveId ==
    /\ InRange(p_args.dev_addr)
    /\ parse_s_devices[p_args.dev_addr].vid # 0

CallVid == parse_s_devices[p_args.dev_addr].vid

CallPid == parse_s_devices[p_args.dev_addr].pid

Unhinted == p_args.hint = TJUH_HINT_NONE

UnhintedSony == Called /\ Unhinted /\ HaveId /\ CallVid = VID_SONY

UnhintedNintendo == Called /\ Unhinted /\ HaveId /\ CallVid = VID_NINTENDO

\* C1: tjuh_parse_report reads no byte of data at an index >= actual_len.
C1_NoReadPastLength ==
    Called => \A i \in p_ret.reads : i < p_args.actual_len

\* C3: with hint XboxOne tjuh_parse_report returns false, whatever the
\* buffer, the length, the endpoint size and the registry identity.
C3_XboxOneUnrecognized ==
    (Called /\ p_args.hint = TJUH_HINT_XBOX_ONE) => ~p_ret.ok

\* an XboxOne-hinted call on a report every later stage would accept: a Sony
\* identity, report ID 1, 10 bytes or more
C3_Witness ==
    /\ Called /\ p_args.hint = TJUH_HINT_XBOX_ONE
    /\ HaveId /\ CallVid = VID_SONY
    /\ p_args.data[0] = 1 /\ p_args.actual_len >= 10
    /\ ~p_ret.ok

\* C4: with hint SwitchPro the result is the Switch decoder's result on the
\* same bytes, whatever identity the registry holds and whatever the
\* endpoint size.
C4_SwitchHintNotBypassed ==
    (Called /\ p_args.hint = TJUH_HINT_SWITCH_PRO) =>
        p_ret = parse_switch(p_args.data, p_args.actual_len, s_zero_report)

\* a SwitchPro-hinted call whose registry identity is Sony on a report the
\* Sony decoder would accept and the Switch decoder rejects
C4_Witness ==
    /\ Called /\ p_args.hint = TJUH_HINT_SWITCH_PRO
    /\ HaveId /\ CallVid = VID_SONY
    /\ p_args.data[0] = 1 /\ p_args.actual_len >= 10
    /\ ~p_ret.ok

OnSwitchRoute ==
    Called /\ (p_args.hint = TJUH_HINT_SWITCH_PRO \/ UnhintedNintendo)

\* C5: on the Switch route a report is decoded successfully if and only if
\* it is a 0x30 report of 12 bytes or more or a 0x3F report of 8 bytes or
\* more.
C5_SwitchAcceptsIff ==
    OnSwitchRoute =>
        (p_ret.ok <=> \/ p_args.data[0] = 48 /\ p_args.actual_len >= 12
                      \/ p_args.data[0] = 63 /\ p_args.actual_len >= 8)

\* C6: every report a successful decode delivers has a dpad in 0..8.
C6_DpadDefined ==
    (Called /\ p_ret.ok) => GetDpad(p_ret.rpt) \in 0..8

\* C7: for an unhinted device whose registry VID is Sony the call succeeds
\* if and only if the first byte is 0x01 and actual_len >= 10.
C7_SonyAcceptsIff ==
    UnhintedSony =>
        (p_ret.ok <=> p_args.data[0] = 1 /\ p_args.actual_len >= 10)

\* an unhinted Sony call rejected for its length on a report the catch-all
\* of the endpoint-size heuristic accepts (ID 1, 9 bytes, a centered axis)
C7_Witness ==
    /\ UnhintedSony
    /\ p_args.data[0] = 1 /\ p_args.actual_len = 9
    /\ p_args.max_ep_size = 64
    /\ Centered(p_args.data[1])
    /\ ~p_ret.ok

UnhintedDualSense ==
    UnhintedSony /\ CallPid \in {PID_DUALSENSE, PID_DUALSENSE_EDGE}

\* C8: an accepted report of an unhinted DualSense or DualSense Edge has
\* x, y, z, rz from bytes 1..4 and the three button bytes from bytes 8, 9
\* and 10.
C8_DualSenseLayout ==
    (UnhintedDualSense /\ p_ret.ok) =>
        /\ p_ret.rpt.x = p_args.data[1]
        /\ p_ret.rpt.y = p_args.data[2]
        /\ p_ret.rpt.z = p_args.data[3]
        /\ p_ret.rpt.rz = p_args.data[4]
        /\ p_ret.rpt.dpad_buttons_byte = p_args.data[8]
        /\ p_ret.rpt.trigger_buttons_byte = p_args.data[9]
        /\ p_ret.rpt.extra_buttons_byte = p_args.data[10]

\* the bytes 1..11 of the buffer are pairwise different
DistinctBytes ==
    \A i, j \in 1..11 : i # j => p_args.data[i] # p_args.data[j]

\* an accepted DualSense Edge report of 11 bytes, all different
C8_Witness ==
    /\ UnhintedDualSense /\ CallPid = PID_DUALSENSE_EDGE
    /\ p_ret.ok /\ p_args.actual_len = 11
    /\ DistinctBytes

\* C9: an accepted report of an unhinted Sony device whose PID is neither
\* DualSense nor DualSense Edge is bytes 1..8 of the input, byte for byte.
C9_Ds4Layout ==
    (UnhintedSony /\ ~UnhintedDualSense /\ p_ret.ok) =>
        ReportBytes(p_ret.rpt) = [i \in 1..8 |-> p_args.data[i]]

\* an accepted report of a Sony device with PID 0, all bytes different
C9_Witness ==
    /\ UnhintedSony /\ CallPid = 0
    /\ p_ret.ok
    /\ DistinctBytes

\* C10: with hint None and registry VID Nintendo the call returns what the
\* call with hint SwitchPro returns on the same bytes.
C10_NintendoAsSwitchHint ==
    UnhintedNintendo =>
        p_ret = tjuh_parse_report(parse_s_devices, p_args.dev_addr,
                                  p_args.data, p_args.actual_len,
                                  p_args.max_ep_size, s_zero_report,
                                  TJUH_HINT_SWITCH_PRO)

\* an accepted 0x3F report of a Nintendo product the code does not name, of
\* the size the generic 8-byte layout would take
C10_Witness ==
    /\ UnhintedNintendo /\ CallPid # PID_SWITCH_PRO
    /\ p_args.data[0] = 63
    /\ p_args.actual_len = 8 /\ p_args.max_ep_size = 8
    /\ p_ret.ok

\* a call that goes to parse_by_endpoint_size unless it is empty: no hint, and no Sony or
\* Nintendo identity in the registry for the address
UnhintedUnidentified ==
    /\ Called /\ Unhinted
    /\ ~(HaveId /\ CallVid \in {VID_SONY, VID_NINTENDO})

\* the (max_ep_size, actual_len) pairs with a layout of their own
SizePairs == { <<8, 8>>, <<8, 3>>, <<32, 20>> }

CallPair == << p_args.max_ep_size, p_args.actual_len >>

\* C11: for a call with no hint and no Sony/Nintendo identity the pairs
\* (8, 8), (8, 3) and (32, 20) of (max_ep_size, actual_len) always succeed,
\* with the generic 8-byte, the generic 3-byte and the Xbox 360 layout, and
\* nothing but what that layout reads is read: the plausibility filter of the
\* catch-all is not consulted.
C11_SizeSpecificLayouts ==
    (UnhintedUnidentified /\ CallPair \in SizePairs) =>
        LET d == CASE CallPair = <<8, 8>> ->
                        parse_generic_8byte(p_args.data, 8, s_zero_report)
                   [] CallPair = <<8, 3>> ->
                        parse_generic_3byte(p_args.data, 3, s_zero_report)
                   [] CallPair = <<32, 20>> ->
                        parse_xbox360(p_args.data, 20, s_zero_report)
        IN /\ p_ret.ok
           /\ p_ret.rpt = d.rpt
           /\ p_ret.reads = d.reads

\* a 20-byte report on a 32-byte endpoint that the catch-all would accept as
\* well, decoded with the Xbox 360 layout
C11_Witness ==
    /\ UnhintedUnidentified /\ CallPair = <<32, 20>>
    /\ p_args.data[0] = 1 /\ Centered(p_args.data[1])
    /\ p_ret.ok
    /\ p_ret.rpt # parse_sony_ds4(p_args.data, 20, s_zero_report).rpt

OnXbox360Route == UnhintedUnidentified /\ CallPair = <<32, 20>>

\* C13: in the Xbox 360 layout the dpad is the table value of the low nibble
\* of data[2]: 0 -> Released (8), 1 -> N (0), 9 -> NE (1), 8 -> E (2),
\* 10 -> SE (3), 2 -> S (4), 6 -> SW (5), 4 -> W (6), 5 -> NW (7), and each
\* of 3, 7, 11, 12, 13, 14, 15 -> Released (8).
C13_Xbox360HatTable ==
    OnXbox360Route =>
        LET n == p_args.data[2] % 16
        IN /\ p_ret.ok
           /\ GetDpad(p_ret.rpt) =
                 CASE n = 0 -> 8
                   [] n = 1 -> 0
                   [] n = 9 -> 1
                   [] n = 8 -> 2
                   [] n = 10 -> 3
                   [] n = 2 -> 4
                   [] n = 6 -> 5
                   [] n = 4 -> 6
                   [] n = 5 -> 7
                   [] n \in {3, 7, 11, 12, 13, 14, 15} -> 8

\* a nibble outside the table, with button bits above it, gives Released
C13_Witness ==
    /\ OnXbox360Route
    /\ p_args.data[2] = 16 * 5 + 3
    /\ GetDpad(p_ret.rpt) = 8

\* the 8-bit value of the 16-bit pattern lo, hi (little-endian)
AxisHigh(lo, hi) == (((lo + 256 * hi) + 32768) % 65536) \div 256

\* C14: in the Xbox 360 layout x and z are ((v + 0x8000) mod 2^16) >> 8 of
\* their little-endian 16-bit value v, and y and rz are 0xFF minus that, for
\* every 16-bit value.
C14_Xbox360Axes ==
    OnXbox360Route =>
        /\ p_ret.rpt.x = AxisHigh(p_args.data[6], p_args.data[7])
        /\ p_ret.rpt.y = 255 - AxisHigh(p_args.data[8], p_args.data[9])
        /\ p_ret.rpt.z = AxisHigh(p_args.data[10], p_args.data[11])
        /\ p_ret.rpt.rz = 255 - AxisHigh(p_args.data[12], p_args.data[13])

\* x = 0xFFFF (-1) gives 0x7F, and in the same report y = 0xFFFF gives 0x80
C14_Witness ==
    /\ OnXbox360Route
    /\ p_args.data[6] = 255 /\ p_args.data[7] = 255
    /\ p_ret.rpt.x = 127
    /\ p_ret.rpt.y = 128

(***************************************************************************)
(* Claims about the registry (RegSpec).                                    *)
(***************************************************************************)
RegOp(op) == p_pc = "reg" /\ p_args.op = op

ValidAddr(a) == a \in 1..TJUH_MAX_DEVICES

\* C17: tjuh_parse_get_vid_pid(a) returns (v, p) exactly when a is in
\* 1..TJUH_MAX_DEVICES and the last init or free on a was init(a, v, p) with
\* v # 0, and fails otherwise (address out of range, never initialised,
\* freed); init and free succeed on an address in range, fail on any other
\* and then change no entry; init(a, v, p) made again changes no entry.
C17_RegistryIdentity ==
    LET a == p_args.dev_addr
        h == p_ret.hist
    IN /\ RegOp("get") =>
             /\ p_ret.ok <=> (ValidAddr(a) /\ h.op = "init" /\ h.vid # 0)
             /\ p_ret.ok => (p_ret.vid = h.vid /\ p_ret.pid = h.pid)
             /\ parse_s_devices = p_ret.before
       /\ (RegOp("init") \/ RegOp("free")) =>
             /\ p_ret.ok <=> ValidAddr(a)
             /\ ~ValidAddr(a) => parse_s_devices = p_ret.before
             /\ \A b \in 1..TJUH_MAX_DEVICES :
                   b # a => parse_s_devices[b] = p_ret.before[b]
       /\ (RegOp("init") /\ h.op = "init"
              /\ h.vid = p_args.vid /\ h.pid = p_args.pid) =>
             parse_s_devices = p_ret.before

\* a lookup that finds the identity given by the second init of an address
\* whose neighbour was freed
C17_Witness ==
    /\ RegOp("get") /\ p_ret.ok
    /\ p_args.dev_addr = TJUH_MAX_DEVICES
    /\ p_ret.vid = VID_NINTENDO /\ p_ret.pid = PID_SWITCH_PRO
    /\ reg_hist[1].op = "free"

(***************************************************************************)
(* Claims about the buffer pool (PoolSpec).                                *)
(***************************************************************************)
Unowned(owner) == {i \in 0..(BUF_POOL_SIZE - 1) : owner[i] = 0}

\* C15: buf_pool_alloc(a) succeeds exactly when a buffer has no owner; then
\* it gives the lowest-index unowned buffer to a and changes no other
\* owner; when every buffer is owned it fails and changes no owner.
C15_AllocLowestFree ==
    last_cb.cb = "alloc" =>
        LET free == Unowned(last_cb.before)
        IN /\ last_cb.ok <=> free # {}
           /\ last_cb.ok =>
                 /\ last_cb.buf \in free
                 /\ \A j \in free : last_cb.buf <= j
                 /\ s_buf_owner = [last_cb.before EXCEPT ![last_cb.buf] = last_cb.daddr]
           /\ ~last_cb.ok => s_buf_owner = last_cb.before

\* an allocation that fails on a full pool, which two addresses share
C15_Witness ==
    /\ last_cb.cb = "alloc" /\ ~last_cb.ok
    /\ Unowned(s_buf_owner) = {}
    /\ \E i, j \in 0..(BUF_POOL_SIZE - 1) : s_buf_owner[i] # s_buf_owner[j]

\* C16: buf_pool_free(a) clears the owner of every buffer a owns and leaves
\* every other buffer's owner as it was; when a owns none the pool is
\* unchanged.
C16_FreeAllOwned ==
    last_cb.cb = "free" =>
        /\ \A i \in 0..(BUF_POOL_SIZE - 1) :
              s_buf_owner[i] = IF last_cb.before[i] = last_cb.daddr THEN 0
                               ELSE last_cb.before[i]
        /\ (\A i \in 0..(BUF_POOL_SIZE - 1) : last_cb.before[i] # last_cb.daddr)
              => s_buf_owner = last_cb.before

\* a free for an address that owned two buffers, another address owning one
C16_Witness ==
    /\ last_cb.cb = "free"
    /\ Cardinality({i \in 0..(BUF_POOL_SIZE - 1) :
                       last_cb.before[i] = last_cb.daddr}) = 2
    /\ \E i \in 0..(BUF_POOL_SIZE - 1) : s_buf_owner[i] \notin {0, last_cb.daddr}

(***************************************************************************)
(* Claims about the host (Spec).                                           *)
(***************************************************************************)
\* the last step was on_report_received for a transfer whose device was
\* detached while the transfer was outstanding
StaleCallback == last_cb.cb = "report" /\ last_cb.stale

\* C2: a completion callback for a read transfer whose device was detached
\* while the transfer was outstanding is a no-op: it delivers no on_report,
\* it does not resubmit the transfer, and the pool buffer it works on is
\* still owned by the transfer's address (not free, not another address's).
C2_StaleCompletionNoOp ==
    StaleCallback =>
        /\ ~last_cb.on_report
        /\ ~last_cb.resubmit
        /\ last_cb.owned

\* what the transport holds for address a: its open IN endpoints, the pool
\* buffers it owns, its read transfers in flight, its open OUT endpoints
InEps(a) == {e \in open_eps : e[1] = a /\ e[2] >= 128}

OutEps(a) == {e \in open_eps : e[1] = a /\ e[2] < 128}

Owned(a) == {i \in 0..(BUF_POOL_SIZE - 1) : s_buf_owner[i] = a}

Reads(a) == {t \in xfers : t.daddr = a /\ ~t.stale}

\* C18: whatever the configuration descriptor, an attached device has at
\* most one IN endpoint open, owns at most one pool buffer and has at most
\* one read transfer in flight, also when its first interface failed to open
\* or was given up part-way.
C18_FirstInterfaceOnly ==
    \A a \in 1..TJUH_MAX_DEVICES :
        /\ Cardinality(InEps(a)) <= 1
        /\ Cardinality(Owned(a)) <= 1
        /\ Cardinality(Reads(a)) <= 1

\* on_device_descriptor has just walked, to the end, a configuration with a
\* sub-descriptor of unexpected type, for a device whose hint is not XboxOne
BadTagWalked ==
    /\ last_cb.cb = "descriptor" /\ last_cb.bad_tag /\ ~last_cb.spin
    /\ s_devices[last_cb.daddr].hint # TJUH_HINT_XBOX_ONE

\* C19: after the walk of a configuration whose interface has a
\* sub-descriptor of unexpected type, wherever among the endpoints, a device
\* whose hint is not XboxOne has no endpoint open, owns no pool buffer and
\* has no read transfer in flight.
C19_BadTagOpensNothing ==
    BadTagWalked =>
        /\ InEps(last_cb.daddr) = {} /\ OutEps(last_cb.daddr) = {}
        /\ Owned(last_cb.daddr) = {}
        /\ Reads(last_cb.daddr) = {}

\* the walk of the device now at address a is waiting in a busy-wait
Waiting(a) ==
    \E n \in 1..Len(enum_stack) : enum_stack[n].a = a /\ ~enum_stack[n].stale

Delivered ==
    last_cb.cb = "report" /\ ~last_cb.stale /\ last_cb.on_report

\* C21: a report of a SwitchPro device whose OUT endpoint opened is decoded
\* and delivered through on_report only once the handshake and the
\* force-USB packet were both submitted, never while the walk of the device
\* waits in a busy-wait for the endpoint to be idle.
C21_SequenceBeforeReports ==
    (/\ Delivered
     /\ s_devices[last_cb.daddr].hint = TJUH_HINT_SWITCH_PRO
     /\ OutEps(last_cb.daddr) # {}) =>
        /\ ~Waiting(last_cb.daddr)
        /\ Len(sent[last_cb.daddr]) >= 2

\* one step as seen from the slot of address a: the hint is left alone, or
\* goes from None to a family in on_device_descriptor of a, or is None after
\* a detach or an attach of a
HintStep(a) ==
    LET old == s_devices[a].hint
        new == s_devices'[a].hint
        nintendo == /\ s_devices'[a].vid = VID_NINTENDO
                    /\ s_devices'[a].pid \in {PID_SWITCH_PRO, PID_JOYCON_L,
                                               PID_JOYCON_R}
    IN /\ (last_cb'.cb \in {"mount", "umount"} /\ last_cb'.daddr = a) =>
             new = TJUH_HINT_NONE
       /\ new # old =>
             \/ last_cb'.cb \in {"mount", "umount"} /\ last_cb'.daddr = a
             \/ /\ old = TJUH_HINT_NONE
                /\ last_cb'.cb = "descriptor" /\ last_cb'.daddr = a
                /\ new = TJUH_HINT_SWITCH_PRO => nintendo
                /\ new = TJUH_HINT_XBOX_ONE => (~nintendo /\ last_cb'.mismatch)
                /\ new \in {TJUH_HINT_SWITCH_PRO, TJUH_HINT_XBOX_ONE}

Dropped ==
    /\ last_cb'.cb = "report" /\ ~last_cb'.stale
    /\ last_cb'.success /\ ~last_cb'.on_report

\* the transfer of the completed buffer is in flight again, on the same
\* endpoint, and no other transfer was touched
Repolled ==
    \E t0 \in xfers, t \in xfers' :
        /\ t0.daddr = last_cb'.daddr /\ t0.buf = last_cb'.buf /\ ~t0.stale
        /\ t.daddr = t0.daddr /\ t.ep_addr = t0.ep_addr /\ t.buf = t0.buf
        /\ ~t.stale
        /\ xfers' \ {t} = xfers \ {t0}

\* C24: a completed read transfer of an attached device whose report is not
\* recognized calls no on_report, changes no device, registry or pool state
\* and is submitted again: the transfer is in flight again on the same
\* endpoint with the same buffer.
C24_DropAndRepoll ==
    [][Dropped =>
         /\ last_cb'.resubmit
         /\ Repolled
         /\ UNCHANGED << s_devices, s_assigned_mask, s_buf_owner,
                         parse_s_devices, attached, open_eps, out_busy, sent,
                         enum_stack >>]_vars

\* a report of a Switch Pro that was not recognized, and its transfer in
\* flight again, while another device is attached
C24_Witness ==
    /\ last_cb.cb = "report" /\ ~last_cb.stale
    /\ last_cb.success /\ ~last_cb.on_report
    /\ s_devices[last_cb.daddr].hint = TJUH_HINT_SWITCH_PRO
    /\ \E t \in xfers : /\ t.daddr = last_cb.daddr /\ t.buf = last_cb.buf
                          /\ ~t.stale
    /\ \E b \in attached : b # last_cb.daddr

\* the step leaves the registry entry, the hint, the negotiated packet size
\* and the pool buffers of every attached address other than a as they were
OthersUntouched(a) ==
    \A b \in (attached \cap (1..TJUH_MAX_DEVICES)) \ {a} :
        /\ parse_s_devices'[b] = parse_s_devices[b]
        /\ s_devices'[b].hint = s_devices[b].hint
        /\ s_devices'[b].max_hid_buf_size = s_devices[b].max_hid_buf_size
        /\ \A i \in 0..(BUF_POOL_SIZE - 1) :
              (s_buf_owner'[i] = b) <=> (s_buf_owner[i] = b)

\* C25: a callback that runs for address a (attach, device descriptor with
\* any failure in it: descriptor fetch, unexpected descriptor, endpoint
\* open, pool exhaustion; the walk going on after a busy-wait; a transfer's
\* completion; detach) leaves unchanged the registry identity, hint, packet
\* size and buffer ownership of every other attached address.
C25_OtherDevicesUntouched == [][OthersUntouched(last_cb'.daddr)]_vars

\* the walk of a device that got the last pool buffer and then found the
\* pool exhausted, the three other buffers being another device's
C25_Witness ==
    /\ last_cb.cb = "descriptor" /\ last_cb.bad_tag
    /\ Unowned(s_buf_owner) = {}
    /\ Cardinality(Owned(last_cb.daddr)) = 1
    /\ \E b \in attached \cap (1..TJUH_MAX_DEVICES) :
          Cardinality(Owned(b)) = 3

\* on_connect was called for address a since its attach: on_device_descriptor
\* calls it exactly when tjuh_parse_init_device succeeded, and the entry
\* stays until detach
Connected(a) == tjuh_parse_get_vid_pid(parse_s_devices, a).ok

\* C27: on_disconnect(a) is called only for an address for which on_connect
\* was called since its attach, also when the attach was ignored because a
\* is above TJUH_MAX_DEVICES or the device descriptor could not be fetched.
C27_CallbacksPaired ==
    [][last_cb'.on_disconnect => Connected(last_cb'.daddr)]_vars

(***************************************************************************)
(* Claims about the descriptor walk (WalkLiveSpec).                        *)
(***************************************************************************)
\* C26: parse_config_descriptor, with count_interface_total_len, returns
\* (or leaves the buffer) for every descriptor buffer and wTotalLength,
\* also with a sub-descriptor whose bLength is 0 and with an
\* Interface-Association descriptor of any interface count.
C26_WalkTerminates == <>(p_pc \in {"w_done", "w_oob"})

=============================================================================
